---------------------------- MODULE Spec2Model ----------------------------
(***************************************************************************)
(* rerun-actions: a comment-driven rerun trigger for GitHub Actions.       *)
(*                                                                         *)
(* The repository holds four near-identical handlers:                      *)
(*   "canonical"  handler.handle, rerun-all / rerun-workflow commands,     *)
(*                gate = ok-to-test label OR privileged commenter          *)
(*   "labelonly"  handler.handle, retest / test commands, gate = label     *)
(*   "regex"      handler.handle, retest / test commands,                  *)
(*                gate = label AND allow/deny regular expressions          *)
(*   "webhook"    RerunActionsHandler.Handle, retest / test commands,      *)
(*                gate = allow/deny regular expressions                    *)
(*                                                                         *)
(* Strings the code inspects character by character (comment bodies,       *)
(* author associations, logins, workflow names) are sequences of           *)
(* one-character strings.                                                  *)
(***************************************************************************)
EXTENDS Integers, Sequences, FiniteSets, TLC

VARIABLES
    variant,            \* which handler is running
    allowUserRegexps,   \* handler.allowUserRegexps
    denyUserRegexps,    \* handler.denyUserRegexps
    githubWorkflow,     \* os.Getenv("GITHUB_WORKFLOW")
    pc,                 \* position of the handler
    event,              \* webhook: event.GetAction()
    comment,            \* the comment (fetched, or inline in the event)
    issue,              \* the issue of the comment
    pr,                 \* the pull request
    testsToRerun,       \* result of parseCommentsToWorkflowNames
    workflows,          \* the target workflows, in listing order
    wfIdx,              \* index of the next target workflow to scan
    runsToRerun,        \* the selected runs
    runIdx,             \* index of the next selected run to execute
    calls,              \* the API requests issued so far, in order
    lastErr,            \* whether the latest API request failed
    ret,                \* what the handler returned: "", "nil" or "error"
    fn,                 \* pure-function specification: the function applied
    arg,                \* pure-function specification: its input
    out                 \* pure-function specification: its result

vars == <<variant, allowUserRegexps, denyUserRegexps, githubWorkflow, pc, event,
          comment, issue, pr, testsToRerun, workflows, wfIdx, runsToRerun,
          runIdx, calls, lastErr, ret, fn, arg, out>>

-----------------------------------------------------------------------------
(* Bounds of the model. *)

MaxLines == 3
MaxPatterns == 2
MaxWorkflows == 2
MaxRuns == 2
MaxScan == 3
MaxCommands == 2

-----------------------------------------------------------------------------
(* Characters and string constants. *)

SP == " "
TAB == "\t"
CR == "\r"
NL == "\n"

\* unicode.IsSpace on the characters a comment line can hold
WhiteSpace == {SP, TAB, CR, NL}

testAll == <<"_", "_", "a", "l", "l">>
retestAllWorkflowsCommand == <<"r", "e", "r", "u", "n", "-", "a", "l", "l">>
testWorkflowCommand == <<"r", "e", "r", "u", "n", "-", "w", "o", "r", "k", "f", "l", "o", "w">>
legacyRetestCommand == <<"r", "e", "t", "e", "s", "t">>
legacyTestCommand == <<"t", "e", "s", "t">>
completedStatus == "completed"
successfulConclusion == "success"
canTestLabel == "ok-to-test"
MinCommandLen == 5

Variants == {"canonical", "labelonly", "regex", "webhook"}
ActionVariants == {"canonical", "labelonly", "regex"}

\* The command words of a handler's parser.
RetestCommandOf(v) == IF v = "canonical" THEN retestAllWorkflowsCommand ELSE legacyRetestCommand
TestCommandOf(v) == IF v = "canonical" THEN testWorkflowCommand ELSE legacyTestCommand

-----------------------------------------------------------------------------
(* Sequence helpers. *)

Range(s) == {s[i] : i \in 1..Len(s)}

RECURSIVE Concat(_)
Concat(ss) == IF ss = <<>> THEN <<>> ELSE Head(ss) \o Concat(Tail(ss))

\* All sequences over S of length at most n.
SeqsUpTo(S, n) == UNION {[1..k -> S] : k \in 0..n}

\* All sequences over S of length at most n without repeated elements.
InjSeqsUpTo(S, n) == {s \in SeqsUpTo(S, n) : \A i, j \in 1..Len(s) : s[i] = s[j] => i = j}

-----------------------------------------------------------------------------
(* parseCommentsToWorkflowNames *)

\* strings.Split(s, sep) for a one-character separator: n separators give n+1 parts.
RECURSIVE SplitAcc(_, _, _, _)
SplitAcc(s, sep, cur, acc) ==
    IF s = <<>> THEN Append(acc, cur)
    ELSE IF Head(s) = sep THEN SplitAcc(Tail(s), sep, <<>>, Append(acc, cur))
    ELSE SplitAcc(Tail(s), sep, Append(cur, Head(s)), acc)

Split(s, sep) == SplitAcc(s, sep, <<>>, <<>>)

\* bufio.ScanLines: dropCR removes one trailing carriage return.
dropCR(line) ==
    IF Len(line) > 0 /\ line[Len(line)] = CR THEN SubSeq(line, 1, Len(line) - 1) ELSE line

\* bufio.Scanner with ScanLines over the body: the text after the last newline
\* is a line only when it is not empty.
ScanLines(body) ==
    LET parts == Split(body, NL)
        kept == IF parts[Len(parts)] = <<>> THEN SubSeq(parts, 1, Len(parts) - 1) ELSE parts
    IN [i \in 1..Len(kept) |-> dropCR(kept[i])]

\* strings.TrimSpace
RECURSIVE TrimLeft(_)
TrimLeft(w) == IF w # <<>> /\ Head(w) \in WhiteSpace THEN TrimLeft(Tail(w)) ELSE w

RECURSIVE TrimRight(_)
TrimRight(w) ==
    IF w # <<>> /\ w[Len(w)] \in WhiteSpace THEN TrimRight(SubSeq(w, 1, Len(w) - 1)) ELSE w

TrimSpace(w) == TrimRight(TrimLeft(w))

\* The inner loop: split the line on " ", trim each word, keep the non-empty ones.
SplitComment(line) ==
    LET words == Split(line, SP)
        trimmed == [i \in 1..Len(words) |-> TrimSpace(words[i])]
    IN SelectSeq(trimmed, LAMBDA w : w # <<>>)

\* The early return of the loop: the line is no command line.
NotACommandLine(splitComment) ==
    \/ Len(splitComment) = 0
    \/ Len(splitComment[1]) < MinCommandLen
    \/ splitComment[1][1] # "/"

\* The switch on the command word: the map after one command line.
SwitchCommand(v, splitComment, acc) ==
    LET cmd == Tail(splitComment[1])
    IN IF cmd = RetestCommandOf(v) THEN acc \cup {testAll}
       ELSE IF cmd = TestCommandOf(v)
            THEN IF Len(splitComment) < 2 THEN acc ELSE acc \cup {splitComment[2]}
       ELSE acc

\* One iteration with "continue" in place of the early "return nil".
LineStepSkipping(v, line, acc) ==
    LET splitComment == SplitComment(line)
    IN IF NotACommandLine(splitComment) THEN [return |-> FALSE, map |-> acc]
       ELSE [return |-> FALSE, map |-> SwitchCommand(v, splitComment, acc)]

\* One iteration with "return nil" in place of "continue" for a missing workflow name.
LineStepStrict(v, line, acc) ==
    LET splitComment == SplitComment(line)
    IN IF NotACommandLine(splitComment) THEN [return |-> TRUE, map |-> {}]
       ELSE IF Tail(splitComment[1]) = TestCommandOf(v) /\ Len(splitComment) < 2
            THEN [return |-> TRUE, map |-> {}]
       ELSE [return |-> FALSE, map |-> SwitchCommand(v, splitComment, acc)]

\* One iteration of the scanner loop: either the function returns nil (the
\* empty set), or the loop goes on with the updated map.
LineStep(v, line, acc) ==
    LET splitComment == SplitComment(line)
    IN IF NotACommandLine(splitComment) THEN [return |-> TRUE, map |-> {}]
       ELSE [return |-> FALSE, map |-> SwitchCommand(v, splitComment, acc)]

\* The scanner loop from line i on.
RECURSIVE ParseFrom(_, _, _, _)
ParseFrom(v, lines, i, acc) ==
    IF i > Len(lines) THEN acc
    ELSE LET step == LineStep(v, lines[i], acc)
         IN IF step.return THEN step.map ELSE ParseFrom(v, lines, i + 1, step.map)

parseCommentsToWorkflowNames(v, commentBody) == ParseFrom(v, ScanLines(commentBody), 1, {})

-----------------------------------------------------------------------------
(* The authorization gate. *)

\* A compiled pattern: a literal with optional ^ and $ anchors.
\* regexp.MatchString reports whether the pattern matches somewhere in s.
MatchString(re, s) ==
    \E i \in 1..(Len(s) - Len(re.lit) + 1) :
        /\ SubSeq(s, i, i + Len(re.lit) - 1) = re.lit
        /\ re.start => i = 1
        /\ re.end => i + Len(re.lit) - 1 = Len(s)

\* The first loop of canUserComment: false as soon as one allow pattern fails.
RECURSIVE AllowLoop(_, _)
AllowLoop(res, user) ==
    IF res = <<>> THEN TRUE
    ELSE IF ~MatchString(Head(res), user) THEN FALSE
    ELSE AllowLoop(Tail(res), user)

\* The second loop of canUserComment: false as soon as one deny pattern matches.
RECURSIVE DenyLoop(_, _)
DenyLoop(res, user) ==
    IF res = <<>> THEN TRUE
    ELSE IF MatchString(Head(res), user) THEN FALSE
    ELSE DenyLoop(Tail(res), user)

\* canUserComment with the deny list consulted only when no allow list is set.
canUserCommentAllowFirst(allow, deny, user) ==
    IF allow # <<>> THEN AllowLoop(allow, user) ELSE DenyLoop(deny, user)

\* handler.canUserComment and RerunActionsHandler.canAuthorComment
canUserComment(allow, deny, user) ==
    IF ~AllowLoop(allow, user) THEN FALSE ELSE DenyLoop(deny, user)

UpperLetters == {"A", "B", "C", "D", "E", "F", "G", "H", "I", "J", "K", "L", "M",
                 "N", "O", "P", "Q", "R", "S", "T", "U", "V", "W", "X", "Y", "Z"}

LowerOf(c) ==
    CASE c = "A" -> "a" [] c = "B" -> "b" [] c = "C" -> "c" [] c = "D" -> "d"
      [] c = "E" -> "e" [] c = "F" -> "f" [] c = "G" -> "g" [] c = "H" -> "h"
      [] c = "I" -> "i" [] c = "J" -> "j" [] c = "K" -> "k" [] c = "L" -> "l"
      [] c = "M" -> "m" [] c = "N" -> "n" [] c = "O" -> "o" [] c = "P" -> "p"
      [] c = "Q" -> "q" [] c = "R" -> "r" [] c = "S" -> "s" [] c = "T" -> "t"
      [] c = "U" -> "u" [] c = "V" -> "v" [] c = "W" -> "w" [] c = "X" -> "x"
      [] c = "Y" -> "y" [] c = "Z" -> "z" [] OTHER -> c

\* strings.ToLower
ToLower(s) == [i \in 1..Len(s) |-> LowerOf(s[i])]

A_collaborator == <<"c", "o", "l", "l", "a", "b", "o", "r", "a", "t", "o", "r">>
A_contributor == <<"c", "o", "n", "t", "r", "i", "b", "u", "t", "o", "r">>
A_member == <<"m", "e", "m", "b", "e", "r">>
A_owner == <<"o", "w", "n", "e", "r">>

privilegedAssociations == {A_collaborator, A_contributor, A_member, A_owner}

\* isCommenterPrivileged without the lower-casing.
isCommenterPrivilegedExact(authorAssoc) == authorAssoc \in privilegedAssociations

isCommenterPrivileged(authorAssoc) == ToLower(authorAssoc) \in privilegedAssociations

\* hasOkToTestLabel with the result of the loop inverted.
hasOkToTestLabelInverted(i) == ~(\E k \in 1..Len(i.labels) : i.labels[k] = canTestLabel)

\* hasOkToTestLabel: label.GetName() == "ok-to-test" for some label of the issue.
hasOkToTestLabel(i) == \E k \in 1..Len(i.labels) : i.labels[k] = canTestLabel

-----------------------------------------------------------------------------
(* The eligibility filter. *)

\* github.Label.String(): the struct printed by github.Stringify, never the bare name.
LabelString(name) ==
    CASE name = "ok-to-test" -> "github.Label{Name:\"ok-to-test\"}"
      [] name = "bug" -> "github.Label{Name:\"bug\"}"
      [] OTHER -> "github.Label{}"

\* isIssueRerunable with the lock test dropped.
isIssueRerunableNoLock(v, i) == i.isPullRequest

\* isIssueRerunable. The webhook handler's version also walks the labels and
\* returns true whether or not one of them prints as "ok-to-test".
isIssueRerunable(v, i) ==
    IF v = "webhook"
    THEN IF ~i.isPullRequest \/ i.locked THEN FALSE
         ELSE IF \E k \in 1..Len(i.labels) : LabelString(i.labels[k]) = "ok-to-test" THEN TRUE
         ELSE TRUE
    ELSE i.isPullRequest /\ ~i.locked

-----------------------------------------------------------------------------
(* Input vocabularies. *)

W_build == <<"b", "u", "i", "l", "d">>
W_foo == <<"f", "o", "o">>
W_deploy == <<"d", "e", "p", "l", "o", "y">>
W_looks == <<"l", "o", "o", "k", "s">>
W_good == <<"g", "o", "o", "d">>
W_lint == <<"l", "i", "n", "t">>
W_rerun == <<"r", "e", "r", "u", "n">>
W_yml == <<".", "y", "m", "l">>

Slash(w) == <<"/">> \o w

\* "/rerun-workflow <name>" and "/test <name>"
WorkflowLine(name) == Slash(testWorkflowCommand) \o <<SP>> \o name
LegacyWorkflowLine(name) == Slash(legacyTestCommand) \o <<SP>> \o name

\* Workflow names a comment may give; legacyTestCommand is also the name "test".
WorkflowNames == {W_build, legacyTestCommand, testAll}

L_blank == <<>>
L_all == Slash(retestAllWorkflowsCommand)
L_noarg == Slash(testWorkflowCommand)
L_twoargs == Slash(testWorkflowCommand) \o <<SP, SP>> \o W_build \o <<SP>> \o W_lint
L_text == W_looks \o <<SP>> \o W_good \o <<SP>> \o Slash(retestAllWorkflowsCommand)
L_short == Slash(W_foo)
L_unknown == Slash(W_deploy) \o <<SP>> \o W_build
L_tab_all == <<TAB>> \o Slash(retestAllWorkflowsCommand) \o <<SP>>
L_all_cr == Slash(retestAllWorkflowsCommand) \o <<CR>>
L_retest == Slash(legacyRetestCommand)
L_test_noarg == Slash(legacyTestCommand)

LineVocab ==
    {L_blank, L_all, L_noarg, L_twoargs, L_text, L_short, L_unknown, L_tab_all,
     L_all_cr, L_retest, L_test_noarg}
    \cup {WorkflowLine(n) : n \in WorkflowNames}
    \cup {LegacyWorkflowLine(W_build)}

\* The lines joined by newlines, with or without a final newline.
RECURSIVE JoinLines(_, _)
JoinLines(lines, nl) ==
    IF lines = <<>> THEN <<>>
    ELSE IF Len(lines) = 1 THEN Head(lines) \o (IF nl THEN <<NL>> ELSE <<>>)
    ELSE Head(lines) \o <<NL>> \o JoinLines(Tail(lines), nl)

ParserDialects == {"canonical", "labelonly"}

\* A body as its lines and whether the last line ends with a newline; an empty last
\* line is written only with its newline.
ParseArgs ==
    {a \in [v : ParserDialects, lines : SeqsUpTo(LineVocab, MaxLines), nl : BOOLEAN] :
        a.nl \/ a.lines = <<>> \/ a.lines[Len(a.lines)] # <<>>}

U_dev == <<"d", "e", "v">>
U_bot == <<"b", "o", "t">>
U_devbot == <<"d", "e", "v", "b", "o", "t">>

Logins == {U_dev, U_bot, U_devbot}

\* "^dev$", "dev", "bot", "bot$"
Patterns ==
    {[start |-> TRUE, end |-> TRUE, lit |-> U_dev],
     [start |-> FALSE, end |-> FALSE, lit |-> U_dev],
     [start |-> FALSE, end |-> FALSE, lit |-> U_bot],
     [start |-> FALSE, end |-> TRUE, lit |-> U_bot]}

CanUserCommentArgs ==
    [allow : SeqsUpTo(Patterns, MaxPatterns), deny : SeqsUpTo(Patterns, MaxPatterns),
     user : Logins]

UpperOf(c) ==
    CASE c = "a" -> "A" [] c = "b" -> "B" [] c = "c" -> "C" [] c = "d" -> "D"
      [] c = "e" -> "E" [] c = "f" -> "F" [] c = "g" -> "G" [] c = "h" -> "H"
      [] c = "i" -> "I" [] c = "j" -> "J" [] c = "k" -> "K" [] c = "l" -> "L"
      [] c = "m" -> "M" [] c = "n" -> "N" [] c = "o" -> "O" [] c = "p" -> "P"
      [] c = "q" -> "Q" [] c = "r" -> "R" [] c = "s" -> "S" [] c = "t" -> "T"
      [] c = "u" -> "U" [] c = "v" -> "V" [] c = "w" -> "W" [] c = "x" -> "X"
      [] c = "y" -> "Y" [] c = "z" -> "Z" [] OTHER -> c

A_first_timer == <<"f", "i", "r", "s", "t", "_", "t", "i", "m", "e", "r">>
A_first_time_contributor ==
    <<"f", "i", "r", "s", "t", "_", "t", "i", "m", "e", "_",
      "c", "o", "n", "t", "r", "i", "b", "u", "t", "o", "r">>
A_none == <<"n", "o", "n", "e">>
A_owners == <<"o", "w", "n", "e", "r", "s">>

AssocWords ==
    {A_collaborator, A_contributor, A_member, A_owner, A_first_timer,
     A_first_time_contributor, A_none, A_owners, <<>>}

\* A word in one of four letter cases: lower, UPPER, Capitalised, aLtErNaTiNg.
InCase(w, k) ==
    [i \in 1..Len(w) |->
        CASE k = "lower" -> w[i]
          [] k = "upper" -> UpperOf(w[i])
          [] k = "capital" -> IF i = 1 THEN UpperOf(w[i]) ELSE w[i]
          [] OTHER -> IF i % 2 = 0 THEN UpperOf(w[i]) ELSE w[i]]

LetterCases == {"lower", "upper", "capital", "alternating"}

Assocs == {InCase(w, k) : w \in AssocWords, k \in LetterCases}

LabelLists == {<<>>, <<"bug">>, <<"bug", "ok-to-test">>}

Issues == [fetched : {TRUE}, isPullRequest : BOOLEAN, locked : BOOLEAN, labels : LabelLists]

NoComment == [fetched |-> FALSE, body |-> <<>>, assoc |-> <<>>, login |-> <<>>]
NoIssue == [fetched |-> FALSE, isPullRequest |-> FALSE, locked |-> FALSE, labels |-> <<>>]
NoPR == [fetched |-> FALSE, merged |-> FALSE, head |-> "", createdAt |-> 0]

-----------------------------------------------------------------------------
(* The specification of the pure functions: Init draws an input, one action *)
(* per function applies it.                                                 *)

HandlerIdle ==
    /\ variant = "none"
    /\ allowUserRegexps = <<>>
    /\ denyUserRegexps = <<>>
    /\ githubWorkflow = <<>>
    /\ event = ""
    /\ comment = NoComment
    /\ issue = NoIssue
    /\ pr = NoPR
    /\ testsToRerun = {}
    /\ workflows = <<>>
    /\ wfIdx = 1
    /\ runsToRerun = <<>>
    /\ runIdx = 1
    /\ calls = <<>>
    /\ lastErr = FALSE
    /\ ret = ""

handlerVars ==
    <<variant, allowUserRegexps, denyUserRegexps, githubWorkflow, event, comment, issue,
      pr, testsToRerun, workflows, wfIdx, runsToRerun, runIdx, calls,
      lastErr, ret>>

ParseInit ==
    /\ HandlerIdle
    /\ pc = "apply"
    /\ fn = "parseCommentsToWorkflowNames"
    /\ arg \in ParseArgs
    /\ out = {}

ApplyParse ==
    /\ pc = "apply"
    /\ fn = "parseCommentsToWorkflowNames"
    /\ out' = parseCommentsToWorkflowNames(arg.v, JoinLines(arg.lines, arg.nl))
    /\ pc' = "applied"
    /\ UNCHANGED <<handlerVars, fn, arg>>

SpecParse == ParseInit /\ [][ApplyParse]_vars

GateInit ==
    /\ HandlerIdle
    /\ pc = "apply"
    /\ out = FALSE
    /\ \/ fn = "canUserComment" /\ arg \in CanUserCommentArgs
       \/ fn = "isCommenterPrivileged" /\ arg \in [assoc : Assocs]
       \/ fn = "isIssueRerunable" /\ arg \in [v : Variants, issue : Issues]
       \/ fn = "hasOkToTestLabel" /\ arg \in [issue : Issues]

ApplyCanUserComment ==
    /\ pc = "apply"
    /\ fn = "canUserComment"
    /\ out' = canUserComment(arg.allow, arg.deny, arg.user)
    /\ pc' = "applied"
    /\ UNCHANGED <<handlerVars, fn, arg>>

ApplyIsCommenterPrivileged ==
    /\ pc = "apply"
    /\ fn = "isCommenterPrivileged"
    /\ out' = isCommenterPrivileged(arg.assoc)
    /\ pc' = "applied"
    /\ UNCHANGED <<handlerVars, fn, arg>>

ApplyIsIssueRerunable ==
    /\ pc = "apply"
    /\ fn = "isIssueRerunable"
    /\ out' = isIssueRerunable(arg.v, arg.issue)
    /\ pc' = "applied"
    /\ UNCHANGED <<handlerVars, fn, arg>>

ApplyHasOkToTestLabel ==
    /\ pc = "apply"
    /\ fn = "hasOkToTestLabel"
    /\ out' = hasOkToTestLabel(arg.issue)
    /\ pc' = "applied"
    /\ UNCHANGED <<handlerVars, fn, arg>>

GateNext ==
    \/ ApplyCanUserComment
    \/ ApplyIsCommenterPrivileged
    \/ ApplyIsIssueRerunable
    \/ ApplyHasOkToTestLabel

SpecGate == GateInit /\ [][GateNext]_vars

-----------------------------------------------------------------------------
(* The run selector and the rerun executor. *)

\* The target workflows read as if RerunAll were never asked for.
TargetWorkflowsByNameOnly(tests, listed) ==
    SelectSeq(listed, LAMBDA w : w.name \in tests)

\* The target workflows: the whole listing when the key testAll is present,
\* otherwise the listed workflows whose name is a key of the map.
TargetWorkflows(tests, listed) ==
    IF testAll \in tests THEN listed
    ELSE SelectSeq(listed, LAMBDA w : w.name \in tests)

\* Every workflow taken as active.
IsActiveAlways(w) == TRUE

\* "Do not attempt to rerun inactive workflows."
IsActive(w) == w.state = "active"

\* A loop that stays on the element it is at.
SameIndex(i) == i

\* The range loops move on to the next element.
NextIndex(i) == i + 1

\* The runs found for a workflow put before the runs selected so far.
PrependRuns(selected, found) == found \o selected

\* runsToRerun = append(runsToRerun, run)
AppendRuns(selected, found) == selected \o found

\* Every action of an issue_comment event handled.
HandlesActionAny(a) == TRUE

\* "Only handle new comments."
HandlesAction(a) == a = "created"

\* The scan going on past a run older than the PR instead of stopping.
RECURSIVE ScanRunsSkippingOlder(_, _)
ScanRunsSkippingOlder(runs, p) ==
    IF runs = <<>> THEN <<>>
    ELSE IF Head(runs).createdAt < p.createdAt THEN ScanRunsSkippingOlder(Tail(runs), p)
    ELSE IF Head(runs).headSHA = p.head THEN <<Head(runs)>>
    ELSE ScanRunsSkippingOlder(Tail(runs), p)

\* The scan taking the first run of the list, whatever its head SHA.
ScanRunsFirst(runs, p) ==
    IF runs = <<>> THEN <<>>
    ELSE IF Head(runs).createdAt < p.createdAt THEN <<>>
    ELSE <<Head(runs)>>

\* The self test comparing the workflow's name alone.
IsSelfWorkflowByNameOnly(v, wfName, w) ==
    v \in ActionVariants /\ wfName = w.name

\* "Always skip this workflow to prevent recursion issues": only the Action handlers.
IsSelfWorkflow(v, wfName, w) ==
    v \in ActionVariants /\ (wfName = w.name \/ wfName = w.path)

\* The scan taking every run with the PR's head SHA, without the break.
RECURSIVE ScanRunsAll(_, _)
ScanRunsAll(runs, p) ==
    IF runs = <<>> THEN <<>>
    ELSE IF Head(runs).createdAt < p.createdAt THEN <<>>
    ELSE IF Head(runs).headSHA = p.head THEN <<Head(runs)>> \o ScanRunsAll(Tail(runs), p)
    ELSE ScanRunsAll(Tail(runs), p)

\* The scan without the test of the creation time.
RECURSIVE ScanRunsAnyAge(_, _)
ScanRunsAnyAge(runs, p) ==
    IF runs = <<>> THEN <<>>
    ELSE IF Head(runs).headSHA = p.head THEN <<Head(runs)>>
    ELSE ScanRunsAnyAge(Tail(runs), p)

\* The scan of one workflow's runs: stop at the first run older than the PR, take
\* the first run whose head SHA is the PR's head SHA.
RECURSIVE ScanRuns(_, _)
ScanRuns(runs, p) ==
    IF runs = <<>> THEN <<>>
    ELSE IF Head(runs).createdAt < p.createdAt THEN <<>>
    ELSE IF Head(runs).headSHA = p.head THEN <<Head(runs)>>
    ELSE ScanRuns(Tail(runs), p)

\* The merged-PR test always failing.
IsMergedNever(p) == FALSE

\* pr.GetMerged()
IsMerged(p) == p.merged

\* Whether the executor skips the run: completed and successful. The webhook
\* handler has no such test.
SkipsRun(v, run) ==
    /\ v \in ActionVariants
    /\ run.status = completedStatus
    /\ run.conclusion = successfulConclusion

\* No run is cancelled before its rerun.
NeedsCancelNever(run) == FALSE

\* "Cancel non-completed runs before queuing a rerun."
NeedsCancel(run) == run.status # completedStatus

\* A failed cancel or rerun request ending the loop over the selected runs.
FailureEndsBatchAlways(err) == err

\* Whether a failed cancel or rerun request ends the loop over the selected runs:
\* the failure is logged and the loop goes on.
FailureEndsBatch(err) == FALSE

\* The gate with the label alone deciding.
AuthorizedByLabelOnly(v, allow, deny, c, i) == hasOkToTestLabel(i)

\* The authorization gate of each handler.
Authorized(v, allow, deny, c, i) ==
    CASE v = "canonical" -> hasOkToTestLabel(i) \/ isCommenterPrivileged(c.assoc)
      [] v = "labelonly" -> hasOkToTestLabel(i)
      [] v = "regex" -> hasOkToTestLabel(i) /\ canUserComment(allow, deny, c.login)
      [] OTHER -> canUserComment(allow, deny, c.login)

-----------------------------------------------------------------------------
(* The inputs of an invocation. *)

B_all == JoinLines(<<L_all>>, TRUE)
B_build == JoinLines(<<WorkflowLine(W_build)>>, TRUE)
B_two == JoinLines(<<WorkflowLine(W_build), WorkflowLine(legacyTestCommand)>>, TRUE)
B_text == JoinLines(<<L_text>>, FALSE)
B_retest == JoinLines(<<L_retest>>, TRUE)
B_test_build == JoinLines(<<LegacyWorkflowLine(W_build)>>, TRUE)

HandlerBodies == {B_all, B_build, B_two, B_text, B_retest, B_test_build}

HandlerAssocs == {InCase(A_owner, "upper"), InCase(A_none, "upper")}

\* The comments handler v may meet. A field the handler never reads is left empty:
\* the association is read by the canonical handler alone, the login by the
\* handlers that hold allow and deny lists.
Comments(v) ==
    [fetched : {TRUE}, body : HandlerBodies,
     assoc : IF v = "canonical" THEN HandlerAssocs ELSE {<<>>},
     login : IF v \in {"regex", "webhook"} THEN {U_dev, U_devbot} ELSE {<<>>}]

HandlerIssues ==
    [fetched : {TRUE}, isPullRequest : BOOLEAN, locked : BOOLEAN,
     labels : {<<"bug">>, <<"bug", "ok-to-test">>}]

\* The allow and deny lists a deployment configures.
Configs ==
    {[allow |-> <<>>, deny |-> <<>>],
     [allow |-> <<[start |-> FALSE, end |-> FALSE, lit |-> U_dev]>>,
      deny |-> <<[start |-> FALSE, end |-> FALSE, lit |-> U_bot]>>]}

PullRequests == [fetched : {TRUE}, merged : BOOLEAN, head : {"sha1"}, createdAt : {2}]

Workflow(id, name, state) ==
    [id |-> id, name |-> name, path |-> name \o W_yml, state |-> state]

WorkflowCatalogue ==
    {Workflow(1, W_build, "active"), Workflow(2, legacyTestCommand, "active"),
     Workflow(3, W_lint, "disabled_manually"), Workflow(4, W_rerun, "active")}

\* GITHUB_WORKFLOW: the name of one workflow, or the path of another.
WorkflowIdentities == {W_rerun, legacyTestCommand \o W_yml}

WorkflowLists == InjSeqsUpTo(WorkflowCatalogue, MaxWorkflows)

\* A run was created before the PR (1) or at the PR's creation time (2); it is in
\* progress, or completed with a conclusion. A run older than the PR is given the
\* PR's head SHA, the case in which the age test alone keeps it out.
RunShapes ==
    {r \in [headSHA : {"sha1", "sha2"}, createdAt : 1..2,
            status : {"in_progress", "completed"},
            conclusion : {"", "success", "failure"}] :
        /\ (r.status = "completed") <=> (r.conclusion # "")
        /\ r.createdAt = 1 => r.headSHA = "sha1"}

\* The run lists of workflow wid: the run at position k has id <<wid, k>>.
RunLists(wid) ==
    {[k \in 1..Len(s) |->
        [id |-> <<wid, k>>, workflowID |-> wid, headSHA |-> s[k].headSHA,
         createdAt |-> s[k].createdAt, status |-> s[k].status,
         conclusion |-> s[k].conclusion]] : s \in SeqsUpTo(RunShapes, MaxRuns)}

\* A request to the GitHub API, and whether it failed.
Call(op, id, err) == [op |-> op, id |-> id, err |-> err]

-----------------------------------------------------------------------------
(* The handlers. *)

\* parseCommentsToWorkflowNames on the bodies the handlers meet, computed once.
ParsedBodies ==
    [v \in Variants |-> [body \in HandlerBodies |-> parseCommentsToWorkflowNames(v, body)]]

pureVars == <<fn, arg, out>>
configVars == <<variant, allowUserRegexps, denyUserRegexps, githubWorkflow>>

Init ==
    /\ variant \in Variants
    /\ \E cfg \in Configs :
          /\ allowUserRegexps = (IF variant \in {"regex", "webhook"} THEN cfg.allow ELSE <<>>)
          /\ denyUserRegexps = (IF variant \in {"regex", "webhook"} THEN cfg.deny ELSE <<>>)
    /\ githubWorkflow \in (IF variant \in ActionVariants THEN WorkflowIdentities ELSE {<<>>})
    /\ pc = "start"
    /\ event = ""
    /\ comment = NoComment
    /\ issue = NoIssue
    /\ pr = NoPR
    /\ testsToRerun = {}
    /\ workflows = <<>>
    /\ wfIdx = 1
    /\ runsToRerun = <<>>
    /\ runIdx = 1
    /\ calls = <<>>
    /\ lastErr = FALSE
    /\ ret = ""
    /\ fn = ""
    /\ arg = <<>>
    /\ out = FALSE

\* Every return of the handler carrying an error.
ReturnError(r) == pc' = "done" /\ ret' = "error"

\* The handler returns r.
Return(r) == pc' = "done" /\ ret' = r

\* h.Issues.GetComment
GetComment ==
    /\ pc = "start"
    /\ variant \in ActionVariants
    /\ \/ /\ lastErr' = TRUE
          /\ Return("nil")
          /\ UNCHANGED comment
       \/ /\ lastErr' = FALSE
          /\ comment' \in Comments(variant)
          /\ pc' = (IF variant = "canonical" THEN "parse" ELSE "getIssue")
          /\ UNCHANGED ret
    /\ calls' = Append(calls, Call("GetComment", <<>>, lastErr'))
    /\ UNCHANGED <<configVars, event, issue, pr, testsToRerun, workflows,
                   wfIdx, runsToRerun, runIdx, pureVars>>

\* The webhook delivery: the payload is unmarshalled, and only "created" is handled.
ReceiveEvent ==
    /\ pc = "start"
    /\ variant = "webhook"
    /\ \/ /\ Return("error")
          /\ UNCHANGED <<event, comment, issue>>
       \/ /\ event' \in {"created", "edited", "deleted"}
          /\ comment' \in Comments(variant)
          /\ issue' \in HandlerIssues
          /\ IF ~HandlesAction(event') THEN Return("nil")
             ELSE pc' = "checkIssue" /\ UNCHANGED ret
    /\ UNCHANGED <<configVars, pr, testsToRerun, workflows, wfIdx,
                   runsToRerun, runIdx, calls, lastErr, pureVars>>

\* parseCommentsToWorkflowNames(comment.GetBody()): the canonical handler parses
\* right after the comment and returns when no command is found; the others
\* parse after the PR is known to be unmerged.
Parse ==
    /\ pc = "parse"
    /\ testsToRerun' = ParsedBodies[variant][comment.body]
    /\ IF variant = "canonical"
       THEN IF testsToRerun' = {} THEN Return("nil")
            ELSE pc' = "getIssue" /\ UNCHANGED ret
       ELSE pc' = "listWorkflows" /\ UNCHANGED ret
    /\ UNCHANGED <<configVars, event, comment, issue, pr, workflows, wfIdx,
                   runsToRerun, runIdx, calls, lastErr, pureVars>>

\* h.getIssueForComment
GetIssue ==
    /\ pc = "getIssue"
    /\ \/ /\ lastErr' = TRUE
          /\ Return("nil")
          /\ UNCHANGED issue
       \/ /\ lastErr' = FALSE
          /\ issue' \in HandlerIssues
          /\ pc' = "checkIssue"
          /\ UNCHANGED ret
    /\ calls' = Append(calls, Call("GetIssue", <<>>, lastErr'))
    /\ UNCHANGED <<configVars, event, comment, pr, testsToRerun, workflows,
                   wfIdx, runsToRerun, runIdx, pureVars>>

\* if !isIssueRerunable(issue) { return nil }
CheckIssue ==
    /\ pc = "checkIssue"
    /\ IF ~isIssueRerunable(variant, issue) THEN Return("nil")
       ELSE pc' = (IF variant = "webhook" THEN "newClient" ELSE "gate") /\ UNCHANGED ret
    /\ UNCHANGED <<configVars, event, comment, issue, pr, testsToRerun, workflows, wfIdx, runsToRerun, runIdx, calls, lastErr, pureVars>>

\* h.NewInstallationClient: the webhook handler returns the error.
NewInstallationClient ==
    /\ pc = "newClient"
    /\ \/ Return("error")
       \/ pc' = "gate" /\ UNCHANGED ret
    /\ UNCHANGED <<configVars, event, comment, issue, pr, testsToRerun, workflows, wfIdx, runsToRerun, runIdx, calls, lastErr, pureVars>>

\* The authorization gate.
Gate ==
    /\ pc = "gate"
    /\ IF ~Authorized(variant, allowUserRegexps, denyUserRegexps, comment, issue)
       THEN Return("nil")
       ELSE pc' = "getPR" /\ UNCHANGED ret
    /\ UNCHANGED <<configVars, event, comment, issue, pr, testsToRerun, workflows, wfIdx, runsToRerun, runIdx, calls, lastErr, pureVars>>

\* PullRequests.Get
GetPR ==
    /\ pc = "getPR"
    /\ \/ /\ lastErr' = TRUE
          /\ Return("nil")
          /\ UNCHANGED pr
       \/ /\ lastErr' = FALSE
          /\ pr' \in PullRequests
          /\ pc' = "checkMerged"
          /\ UNCHANGED ret
    /\ calls' = Append(calls, Call("GetPR", <<>>, lastErr'))
    /\ UNCHANGED <<configVars, event, comment, issue, testsToRerun, workflows,
                   wfIdx, runsToRerun, runIdx, pureVars>>

\* "Can't rerun actions on merged PRs."
CheckMerged ==
    /\ pc = "checkMerged"
    /\ IF IsMerged(pr) THEN Return("nil")
       ELSE pc' = (IF variant = "canonical" THEN "listWorkflows" ELSE "parse") /\ UNCHANGED ret
    /\ UNCHANGED <<configVars, event, comment, issue, pr, testsToRerun, workflows, wfIdx, runsToRerun, runIdx, calls, lastErr, pureVars>>

\* Actions.ListWorkflows, and the choice of the target workflows.
ListWorkflows ==
    /\ pc = "listWorkflows"
    /\ \/ /\ lastErr' = TRUE
          /\ Return("nil")
          /\ UNCHANGED workflows
       \/ /\ lastErr' = FALSE
          /\ \E allWorkflows \in WorkflowLists :
                workflows' = TargetWorkflows(testsToRerun, allWorkflows)
          /\ pc' = "select"
          /\ UNCHANGED ret
    /\ calls' = Append(calls, Call("ListWorkflows", <<>>, lastErr'))
    /\ UNCHANGED <<configVars, event, comment, issue, pr, testsToRerun, wfIdx, runsToRerun,
                   runIdx, pureVars>>

\* One iteration of the loop over the target workflows that skips the workflow:
\* it is the workflow running the handler, or it is not active.
SkipWorkflow ==
    /\ pc = "select"
    /\ wfIdx <= Len(workflows)
    /\ \/ IsSelfWorkflow(variant, githubWorkflow, workflows[wfIdx])
       \/ ~IsActive(workflows[wfIdx])
    /\ wfIdx' = NextIndex(wfIdx)
    /\ UNCHANGED <<configVars, pc, event, comment, issue, pr, testsToRerun, workflows, runsToRerun, runIdx, calls, lastErr, ret, pureVars>>

\* One iteration of the loop over the target workflows that lists the runs of the
\* workflow (Actions.ListWorkflowRunsByID) and scans them.
SelectRun ==
    /\ pc = "select"
    /\ wfIdx <= Len(workflows)
    /\ ~IsSelfWorkflow(variant, githubWorkflow, workflows[wfIdx])
    /\ IsActive(workflows[wfIdx])
    /\ \/ /\ lastErr' = TRUE
          /\ Return("nil")
          /\ UNCHANGED <<wfIdx, runsToRerun>>
       \/ /\ lastErr' = FALSE
          /\ \E runs \in RunLists(workflows[wfIdx].id) :
                runsToRerun' = AppendRuns(runsToRerun, ScanRuns(runs, pr))
          /\ wfIdx' = NextIndex(wfIdx)
          /\ UNCHANGED <<pc, ret>>
    /\ calls' = Append(calls, Call("ListWorkflowRuns", <<workflows[wfIdx].id>>, lastErr'))
    /\ UNCHANGED <<configVars, event, comment, issue, pr, testsToRerun, workflows, runIdx, pureVars>>

\* The loop over the target workflows ends; the loop over the selected runs begins.
SelectDone ==
    /\ pc = "select"
    /\ wfIdx > Len(workflows)
    /\ pc' = "exec"
    /\ UNCHANGED <<configVars, event, comment, issue, pr, testsToRerun, workflows, wfIdx, runsToRerun, runIdx, calls, lastErr, ret, pureVars>>

\* A completed and successful run is skipped.
SkipRun ==
    /\ pc = "exec"
    /\ runIdx <= Len(runsToRerun)
    /\ SkipsRun(variant, runsToRerun[runIdx])
    /\ runIdx' = NextIndex(runIdx)
    /\ UNCHANGED <<configVars, pc, event, comment, issue, pr, testsToRerun, workflows, wfIdx, runsToRerun, calls, lastErr, ret, pureVars>>

\* Actions.CancelWorkflowRunByID for a run that is not completed; a failure is
\* logged and the rerun follows.
CancelRun ==
    /\ pc = "exec"
    /\ runIdx <= Len(runsToRerun)
    /\ ~SkipsRun(variant, runsToRerun[runIdx])
    /\ NeedsCancel(runsToRerun[runIdx])
    /\ lastErr' \in BOOLEAN
    /\ IF FailureEndsBatch(lastErr') THEN Return("nil")
       ELSE pc' = "rerun" /\ UNCHANGED ret
    /\ calls' = Append(calls, Call("Cancel", runsToRerun[runIdx].id, lastErr'))
    /\ UNCHANGED <<configVars, event, comment, issue, pr, testsToRerun, workflows, wfIdx, runsToRerun, runIdx, pureVars>>

\* Actions.RerunWorkflowByID; a failure is logged and the loop goes on.
RerunRun ==
    /\ \/ pc = "rerun"
       \/ /\ pc = "exec"
          /\ runIdx <= Len(runsToRerun)
          /\ ~SkipsRun(variant, runsToRerun[runIdx])
          /\ ~NeedsCancel(runsToRerun[runIdx])
    /\ lastErr' \in BOOLEAN
    /\ IF FailureEndsBatch(lastErr') THEN Return("nil") /\ UNCHANGED runIdx
       ELSE pc' = "exec" /\ runIdx' = NextIndex(runIdx) /\ UNCHANGED ret
    /\ calls' = Append(calls, Call("Rerun", runsToRerun[runIdx].id, lastErr'))
    /\ UNCHANGED <<configVars, event, comment, issue, pr, testsToRerun, workflows, wfIdx, runsToRerun, pureVars>>

\* The loop over the selected runs ends: return nil.
ExecDone ==
    /\ pc = "exec"
    /\ runIdx > Len(runsToRerun)
    /\ Return("nil")
    /\ UNCHANGED <<configVars, event, comment, issue, pr, testsToRerun, workflows, wfIdx, runsToRerun, runIdx, calls, lastErr, pureVars>>

Next ==
    \/ GetComment
    \/ ReceiveEvent
    \/ Parse
    \/ GetIssue
    \/ CheckIssue
    \/ NewInstallationClient
    \/ Gate
    \/ GetPR
    \/ CheckMerged
    \/ ListWorkflows
    \/ SkipWorkflow
    \/ SelectRun
    \/ SelectDone
    \/ SkipRun
    \/ CancelRun
    \/ RerunRun
    \/ ExecDone

Spec == Init /\ [][Next]_vars

\* The handler is a sequential function: a step that can be taken is taken.
SpecLive == Spec /\ WF_vars(Next)

-----------------------------------------------------------------------------
(* The start of the process: the inputs are read and checked, the patterns   *)
(* are compiled, then the handler runs. The Action main with initFromInputs  *)
(* of the label-only and of the regex handler, and the webhook main.         *)

StartupVariants == {"labelonly", "regex", "webhook"}

\* Pattern sources: "dev", "bot", and "(dev", "(bot" with a group left open.
S_open_dev == <<"(">> \o U_dev
S_open_bot == <<"(">> \o U_bot

\* The number of occurrences of character c in s.
CountChar(s, c) == Cardinality({k \in 1..Len(s) : s[k] = c})

\* A compilation that accepts every source.
CompileLenient(src) ==
    [err |-> FALSE, re |-> [start |-> FALSE, end |-> FALSE, lit |-> src]]

\* regexp.Compile on the sources used here: an unclosed or unopened group is a
\* syntax error; "^" in front and "$" at the end anchor the literal between them.
Compile(src) ==
    IF CountChar(src, "(") # CountChar(src, ")")
    THEN [err |-> TRUE, re |-> <<>>]
    ELSE LET start == src # <<>> /\ src[1] = "^"
             end == src # <<>> /\ src[Len(src)] = "$"
             from == IF start THEN 2 ELSE 1
             to == IF end THEN Len(src) - 1 ELSE Len(src)
         IN [err |-> FALSE,
             re |-> [start |-> start, end |-> end, lit |-> SubSeq(src, from, to)]]

\* The loop compiling a list of sources: the compiled patterns, or an error at the
\* first source that does not compile.
RECURSIVE CompileAll(_)
CompileAll(srcs) ==
    IF srcs = <<>> THEN [err |-> FALSE, res |-> <<>>]
    ELSE LET first == Compile(Head(srcs))
             rest == CompileAll(Tail(srcs))
         IN IF first.err \/ rest.err THEN [err |-> TRUE, res |-> <<>>]
            ELSE [err |-> FALSE, res |-> <<first.re>> \o rest.res]

\* strconv.ParseInt(s, 10, 64) fails on the empty string and on a non-digit.
Digits == {"0", "1", "2", "3", "4", "5", "6", "7", "8", "9"}
ParseIntFails(str) == str = <<>> \/ \E k \in 1..Len(str) : str[k] \notin Digits

\* A list input: the empty string, a string that is not a JSON list, or a list.
NoListStr == [kind |-> "empty", items |-> <<>>]
BadListStr == [kind |-> "invalid", items |-> <<>>]
ListStr(items) == [kind |-> "list", items |-> items]

\* The inputs of the process. The label-only Action reads no list.
StartupInputs(v) ==
    [allow : IF v = "labelonly" THEN {NoListStr}
             ELSE {NoListStr, BadListStr, ListStr(<<U_dev>>), ListStr(<<S_open_dev>>)},
     deny : IF v = "labelonly" THEN {NoListStr}
            ELSE {NoListStr, BadListStr, ListStr(<<U_bot>>), ListStr(<<S_open_bot>>)},
     token : IF v = "webhook" THEN {"t"} ELSE {"", "t"},
     commentID : IF v = "webhook" THEN {<<"4", "2">>} ELSE {<<>>, <<"4", "2">>, <<"4", "x">>},
     repo : IF v = "webhook" THEN {"o/r"} ELSE {"", "o/r"}]

StartupInit ==
    /\ variant \in StartupVariants
    /\ allowUserRegexps = <<>>
    /\ denyUserRegexps = <<>>
    /\ githubWorkflow \in (IF variant \in ActionVariants THEN WorkflowIdentities ELSE {<<>>})
    /\ pc = "main"
    /\ event = ""
    /\ comment = NoComment
    /\ issue = NoIssue
    /\ pr = NoPR
    /\ testsToRerun = {}
    /\ workflows = <<>>
    /\ wfIdx = 1
    /\ runsToRerun = <<>>
    /\ runIdx = 1
    /\ calls = <<>>
    /\ lastErr = FALSE
    /\ ret = ""
    /\ fn = "main"
    /\ arg \in StartupInputs(variant)
    /\ out = FALSE

\* Fatalf, os.Exit(1) and panic: the process is over.
Exit == pc' = "exited" /\ ret' = "fatal"

\* h.initFromInputs: the lists are unmarshalled and compiled (regex handler), the
\* token is checked.
InitFromInputs ==
    /\ pc = "main"
    /\ variant \in ActionVariants
    /\ LET allow == CompileAll(arg.allow.items)
           deny == CompileAll(arg.deny.items)
       IN IF \/ arg.allow.kind = "invalid" \/ arg.deny.kind = "invalid"
             \/ allow.err \/ deny.err
             \/ arg.token = ""
          THEN Exit /\ UNCHANGED <<allowUserRegexps, denyUserRegexps>>
          ELSE /\ allowUserRegexps' = allow.res
               /\ denyUserRegexps' = deny.res
               /\ pc' = "commentID"
               /\ UNCHANGED ret
    /\ UNCHANGED <<variant, githubWorkflow, event, comment, issue, pr, testsToRerun,
                   workflows, wfIdx, runsToRerun, runIdx, calls, lastErr, pureVars>>

\* main of the webhook server: the configuration is read, the patterns compiled,
\* the server started.
CompileConfig ==
    /\ pc = "main"
    /\ variant = "webhook"
    /\ LET allow == CompileAll(arg.allow.items)
           deny == CompileAll(arg.deny.items)
       IN IF \/ arg.allow.kind = "invalid" \/ arg.deny.kind = "invalid"
             \/ allow.err \/ deny.err
          THEN Exit /\ UNCHANGED <<allowUserRegexps, denyUserRegexps>>
          ELSE /\ allowUserRegexps' = allow.res
               /\ denyUserRegexps' = deny.res
               /\ pc' = "start"
               /\ UNCHANGED ret
    /\ UNCHANGED <<variant, githubWorkflow, event, comment, issue, pr, testsToRerun,
                   workflows, wfIdx, runsToRerun, runIdx, calls, lastErr, pureVars>>

\* main of the Action: comment_id is read and parsed.
ReadCommentID ==
    /\ pc = "commentID"
    /\ IF arg.commentID = <<>> \/ ParseIntFails(arg.commentID) THEN Exit
       ELSE pc' = "repo" /\ UNCHANGED ret
    /\ UNCHANGED <<configVars, event, comment, issue, pr, testsToRerun, workflows, wfIdx,
                   runsToRerun, runIdx, calls, lastErr, pureVars>>

\* main of the Action: GITHUB_REPOSITORY is read, then handle is called.
ReadRepository ==
    /\ pc = "repo"
    /\ IF arg.repo = "" THEN Exit
       ELSE pc' = "start" /\ UNCHANGED ret
    /\ UNCHANGED <<configVars, event, comment, issue, pr, testsToRerun, workflows, wfIdx,
                   runsToRerun, runIdx, calls, lastErr, pureVars>>

StartupNext ==
    \/ InitFromInputs
    \/ CompileConfig
    \/ ReadCommentID
    \/ ReadRepository
    \/ Next

SpecStartup == StartupInit /\ [][StartupNext]_vars

-----------------------------------------------------------------------------
(* The run selector and the decision pipeline of a handler as functions of    *)
(* the handler's inputs, and the specification that applies them.             *)

\* The loop over the target workflows: the workflow running the handler and the
\* workflows that are not active are skipped, the runs of the others are scanned.
RECURSIVE SelectRuns(_, _, _, _, _)
SelectRuns(v, wfName, targets, runsOf, p) ==
    IF targets = <<>> THEN <<>>
    ELSE LET workflow == Head(targets)
             rest == SelectRuns(v, wfName, Tail(targets), runsOf, p)
         IN IF IsSelfWorkflow(v, wfName, workflow) \/ ~IsActive(workflow) THEN rest
            ELSE ScanRuns(runsOf[workflow.id], p) \o rest

\* What handler v decides from its inputs: the commands it recognizes, whether the
\* gate lets the comment through, and the runs it selects.
Pipeline(v, allow, deny, wfName, c, i, p, listed, runsOf) ==
    LET tests == parseCommentsToWorkflowNames(v, c.body)
    IN [commands |-> tests,
        authorized |-> Authorized(v, allow, deny, c, i),
        selected |-> SelectRuns(v, wfName, TargetWorkflows(tests, listed), runsOf, p)]

\* Keys of the map of commands: names in several letter cases, a name that is the
\* beginning of another, a name no workflow has, and the key testAll.
W_buil == <<"b", "u", "i", "l">>
TargetKeys == {W_build, InCase(W_build, "capital"), W_buil, W_lint, W_foo, testAll}

TargetArgs == [tests : SUBSET TargetKeys, listed : WorkflowLists]

Run(wid, k, sha, at, status, conclusion) ==
    [id |-> <<wid, k>>, workflowID |-> wid, headSHA |-> sha, createdAt |-> at,
     status |-> status, conclusion |-> conclusion]

\* Runs as the scan reads them: a head SHA and a creation time, from 1 (before the
\* PR) to 3.
ScanShapes == [headSHA : {"sha1", "sha2"}, createdAt : 1..3]

ScanLists ==
    {[k \in 1..Len(s) |-> Run(1, k, s[k].headSHA, s[k].createdAt, "completed", "failure")] :
        s \in SeqsUpTo(ScanShapes, MaxScan)}

ThePR == [fetched |-> TRUE, merged |-> FALSE, head |-> "sha1", createdAt |-> 2]

ScanArgs == [runs : ScanLists, pr : {ThePR}]

PipelineLines ==
    SeqsUpTo({L_all, L_retest, WorkflowLine(W_build), WorkflowLine(testAll),
              LegacyWorkflowLine(W_build)}, MaxCommands)

\* An owner whose login is "dev", and an outsider whose login is "devbot".
PipelineAuthors ==
    {[assoc |-> InCase(A_owner, "upper"), login |-> U_dev],
     [assoc |-> InCase(A_none, "upper"), login |-> U_devbot]}

PipelineIssues ==
    {i \in HandlerIssues : i.isPullRequest /\ ~i.locked}

\* The run lists of the workflows: one failed run of the PR's head each, or a run
\* of another commit followed by a run in progress of the PR's head.
PipelineRuns ==
    {[wid \in 1..4 |-> <<Run(wid, 1, "sha1", 2, "completed", "failure")>>],
     [wid \in 1..4 |-> <<Run(wid, 1, "sha2", 2, "completed", "success"),
                         Run(wid, 2, "sha1", 2, "in_progress", "")>>]}

PipelineArgs ==
    [lines : PipelineLines, author : PipelineAuthors, issue : PipelineIssues,
     cfg : Configs, wfName : {W_rerun}, pr : {ThePR}, listed : WorkflowLists,
     runsOf : PipelineRuns]

\* The comment of a pipeline input.
CommentOf(a) ==
    [fetched |-> TRUE, body |-> JoinLines(a.lines, TRUE), assoc |-> a.author.assoc,
     login |-> a.author.login]

SelectInit ==
    /\ HandlerIdle
    /\ pc = "apply"
    /\ out = FALSE
    /\ \/ fn = "TargetWorkflows" /\ arg \in TargetArgs
       \/ fn = "ScanRuns" /\ arg \in ScanArgs
       \/ fn = "Pipeline" /\ arg \in PipelineArgs

ApplyTargetWorkflows ==
    /\ pc = "apply"
    /\ fn = "TargetWorkflows"
    /\ out' = TargetWorkflows(arg.tests, arg.listed)
    /\ pc' = "applied"
    /\ UNCHANGED <<handlerVars, fn, arg>>

ApplyScanRuns ==
    /\ pc = "apply"
    /\ fn = "ScanRuns"
    /\ out' = ScanRuns(arg.runs, arg.pr)
    /\ pc' = "applied"
    /\ UNCHANGED <<handlerVars, fn, arg>>

ApplyPipeline ==
    /\ pc = "apply"
    /\ fn = "Pipeline"
    /\ out' = [v \in Variants |->
                Pipeline(v, arg.cfg.allow, arg.cfg.deny, arg.wfName, CommentOf(arg),
                         arg.issue, arg.pr, arg.listed, arg.runsOf)]
    /\ pc' = "applied"
    /\ UNCHANGED <<handlerVars, fn, arg>>

SelectNext ==
    \/ ApplyTargetWorkflows
    \/ ApplyScanRuns
    \/ ApplyPipeline

SpecSelect == SelectInit /\ [][SelectNext]_vars

-----------------------------------------------------------------------------
(* Properties of the command parser, checked under SpecParse. *)

Parsed == pc = "applied" /\ fn = "parseCommentsToWorkflowNames"

\* A line without any token.
IsBlankLine(line) == SplitComment(line) = <<>>

\* A candidate command line: its first token starts with "/" and has 5 characters or more.
IsCandidateLine(line) ==
    LET toks == SplitComment(line)
    IN toks # <<>> /\ Len(toks[1]) >= 5 /\ toks[1][1] = "/"

\* Index of the first non-blank line, 0 when every line is blank.
FirstNonBlank(lines) ==
    IF \A i \in 1..Len(lines) : IsBlankLine(lines[i]) THEN 0
    ELSE CHOOSE i \in 1..Len(lines) :
            ~IsBlankLine(lines[i]) /\ \A j \in 1..(i - 1) : IsBlankLine(lines[j])

\* The handlers read the map as: RerunAll is asked for iff the key testAll is present.
HasRerunAll(map) == testAll \in map

\* C2: a body whose first non-blank line is no candidate command line (its first
\* token does not start with "/" or is shorter than 5 characters) parses to the
\* empty command set, whatever the later lines hold.
C2_FirstLineGating ==
    Parsed =>
        LET i == FirstNonBlank(arg.lines)
        IN (i # 0 /\ ~IsCandidateLine(arg.lines[i])) => out = {}

\* "looks good /rerun-all" followed by a "/rerun-all" line yields no command.
C2_Witness ==
    /\ Parsed
    /\ arg.v = "canonical"
    /\ arg.lines = <<L_text, L_all>>
    /\ out = {}

\* C3: for a body made only of lines "/rerun-all" and "/rerun-workflow <name>", each
\* ended by a newline, the canonical parser returns RerunAll iff some line is
\* "/rerun-all", RerunWorkflow(name) for exactly the names given, and nothing else.
C3_ExactCommandSet ==
    (/\ Parsed
     /\ arg.v = "canonical"
     /\ arg.nl
     /\ \A i \in 1..Len(arg.lines) :
            arg.lines[i] \in {L_all} \cup {WorkflowLine(n) : n \in WorkflowNames})
    => /\ HasRerunAll(out) <=> (\E i \in 1..Len(arg.lines) : arg.lines[i] = L_all)
       /\ out \ {testAll} =
            {n \in WorkflowNames : \E i \in 1..Len(arg.lines) : arg.lines[i] = WorkflowLine(n)}
                \ {testAll}

\* The part of a line's commands the claim of C4 attributes to it.
LineCommands(v, line) == SwitchCommand(v, SplitComment(line), {})

\* A command line preceded only by command lines and blank lines.
IsRecognizedLine(lines, i) ==
    /\ IsCandidateLine(lines[i])
    /\ \A j \in 1..(i - 1) : IsCandidateLine(lines[j]) \/ IsBlankLine(lines[j])

\* C4: when the first non-blank line is a candidate command line, the parser returns
\* the union of the commands of all recognized command lines; blank lines and text
\* lines elsewhere in the body do not discard the commands of other lines.
C4_UnionOfRecognizedLines ==
    Parsed =>
        LET i == FirstNonBlank(arg.lines)
        IN (i # 0 /\ IsCandidateLine(arg.lines[i])) =>
              out = UNION {LineCommands(arg.v, arg.lines[k]) :
                              k \in {k \in 1..Len(arg.lines) : IsRecognizedLine(arg.lines, k)}}

\* A candidate command line that, by the claim of C5, contributes no command: the
\* workflow command without a name, or a command word the parser does not know.
ContributesNothing(v, line) ==
    /\ IsCandidateLine(line)
    /\ LET toks == SplitComment(line)
       IN \/ Tail(toks[1]) = TestCommandOf(v) /\ Len(toks) = 1
          \/ Tail(toks[1]) \notin {TestCommandOf(v), RetestCommandOf(v)}

\* A workflow command line with more than one argument.
HasSeveralArguments(v, line) ==
    /\ IsCandidateLine(line)
    /\ LET toks == SplitComment(line) IN Tail(toks[1]) = TestCommandOf(v) /\ Len(toks) > 2

RemoveAt(s, i) == SubSeq(s, 1, i - 1) \o SubSeq(s, i + 1, Len(s))

\* The body with the characters of line i deleted; the newline before a deleted last
\* line stays.
BodyWithoutLine(lines, nl, i) == JoinLines(RemoveAt(lines, i), nl \/ i = Len(lines))

\* The line reduced to its command word and its first argument.
FirstArgumentOnly(line) ==
    LET toks == SplitComment(line) IN toks[1] \o <<SP>> \o toks[2]

\* C5: a workflow command line without a name and a command line with an unknown
\* command word contribute nothing and do not abort the parse: the result is the
\* result for the body without that line. A workflow command line with several
\* arguments counts as the same line with its first argument alone.
C5_IgnoredLinesDoNotAbort ==
    Parsed =>
        \A i \in 1..Len(arg.lines) :
            /\ ContributesNothing(arg.v, arg.lines[i]) =>
                  out = parseCommentsToWorkflowNames(arg.v,
                            BodyWithoutLine(arg.lines, arg.nl, i))
            /\ HasSeveralArguments(arg.v, arg.lines[i]) =>
                  out = parseCommentsToWorkflowNames(arg.v,
                            JoinLines([arg.lines EXCEPT ![i] = FirstArgumentOnly(arg.lines[i])],
                                      arg.nl))

\* "/rerun-workflow", "/deploy build", "/rerun-workflow  build lint", "/rerun-all":
\* the result is {build, RerunAll}.
C5_Witness ==
    /\ Parsed
    /\ arg.v = "canonical"
    /\ arg.lines = <<L_noarg, L_twoargs, L_all>>
    /\ out = {W_build, testAll}

-----------------------------------------------------------------------------
(* Properties of the authorization gate's functions, checked under SpecGate. *)

Applied(f) == pc = "applied" /\ fn = f

\* C7: canUserComment is true iff the login matches every allow pattern and no deny
\* pattern; a login matching an allow pattern and a deny pattern is rejected.
C7_AllowDenyPolicy ==
    Applied("canUserComment") =>
        out = (/\ \A k \in 1..Len(arg.allow) : MatchString(arg.allow[k], arg.user)
               /\ \A k \in 1..Len(arg.deny) : ~MatchString(arg.deny[k], arg.user))

\* "devbot" matches the allow pattern "dev" and the deny pattern "bot": rejected.
C7_Witness ==
    /\ Applied("canUserComment")
    /\ arg.user = U_devbot
    /\ \E k \in 1..Len(arg.allow) : MatchString(arg.allow[k], arg.user)
    /\ \A k \in 1..Len(arg.allow) : MatchString(arg.allow[k], arg.user)
    /\ \E k \in 1..Len(arg.deny) : MatchString(arg.deny[k], arg.user)
    /\ out = FALSE

\* Equality of two words up to letter case.
EqualFold(a, b) == Len(a) = Len(b) /\ \A i \in 1..Len(a) : UpperOf(a[i]) = UpperOf(b[i])

\* C8: isCommenterPrivileged is true iff the association is, up to letter case, one
\* of collaborator, contributor, member, owner; it is false for FIRST_TIMER,
\* FIRST_TIME_CONTRIBUTOR, NONE and the empty string in any letter case.
C8_PrivilegedAssociations ==
    Applied("isCommenterPrivileged") =>
        /\ out = (\E p \in {A_collaborator, A_contributor, A_member, A_owner} :
                      EqualFold(arg.assoc, p))
        /\ (\E p \in {A_first_timer, A_first_time_contributor, A_none, <<>>} :
                EqualFold(arg.assoc, p)) => out = FALSE

\* "OWNER" is privileged.
C8_Witness ==
    /\ Applied("isCommenterPrivileged")
    /\ arg.assoc = <<"O", "W", "N", "E", "R">>
    /\ out = TRUE

-----------------------------------------------------------------------------
(* Properties of the handlers, checked under Spec. *)

\* Some request of kind op has been issued.
Requested(op) == \E k \in 1..Len(calls) : calls[k].op = op

\* No workflow listing, run listing, cancel or rerun has been issued.
NoSelectionOrExecution ==
    \A k \in 1..Len(calls) :
        calls[k].op \notin {"ListWorkflows", "ListWorkflowRuns", "Cancel", "Rerun"}

\* The selected run with the given id is completed and successful.
IsSuccessfulRun(id) ==
    \E j \in 1..Len(runsToRerun) :
        /\ runsToRerun[j].id = id
        /\ runsToRerun[j].status = "completed"
        /\ runsToRerun[j].conclusion = "success"

\* C1: in every handler, no cancel and no rerun request is issued for a selected run
\* that is completed with conclusion success.
C1_SuccessfulRunSkipped ==
    \A k \in 1..Len(calls) :
        calls[k].op \in {"Cancel", "Rerun"} => ~IsSuccessfulRun(calls[k].id)

\* The statement of C1 for the three Action handlers alone.
SuccessfulRunSkippedByActions == variant \in ActionVariants => C1_SuccessfulRunSkipped

\* The association is privileged: collaborator, contributor, member or owner, in
\* any letter case.
IsPrivilegedAssociation(assoc) ==
    \E p \in {A_collaborator, A_contributor, A_member, A_owner} : EqualFold(assoc, p)

CarriesOkToTest(i) == "ok-to-test" \in Range(i.labels)

\* The handler has gone past the gate: the PR fetch is next, or was issued.
PastGate == pc = "getPR" \/ Requested("GetPR")

\* The gate of the current invocation has been decided.
GateDecided == issue.fetched /\ pc \notin {"checkIssue", "newClient", "gate"}

\* C6: in the canonical handler, for a comment with a command on a rerunable issue,
\* the handler goes past the gate iff the issue carries "ok-to-test" or the
\* commenter's association is privileged; otherwise it ends with no PR fetch, no
\* listing, no cancel and no rerun.
C6_CanonicalGate ==
    (/\ variant = "canonical"
     /\ GateDecided
     /\ testsToRerun # {}
     /\ issue.isPullRequest /\ ~issue.locked)
    => LET allowed == CarriesOkToTest(issue) \/ IsPrivilegedAssociation(comment.assoc)
       IN /\ PastGate <=> allowed
          /\ ~allowed =>
                /\ pc = "done"
                /\ ~Requested("GetPR")
                /\ NoSelectionOrExecution

\* An owner commenting on a PR without the label gets past the gate.
C6_Witness ==
    /\ variant = "canonical"
    /\ GateDecided
    /\ ~CarriesOkToTest(issue)
    /\ IsPrivilegedAssociation(comment.assoc)
    /\ Requested("GetPR")

C10_MergedStopsAfterFetch ==
    (pr.fetched /\ pr.merged) =>
        /\ NoSelectionOrExecution
        /\ calls[Len(calls)].op = "GetPR"
        /\ pc \in {"checkMerged", "done"}

\* A merged PR: the handler has returned nil.
C10_Witness ==
    /\ pr.fetched
    /\ pr.merged
    /\ pc = "done"
    /\ ret = "nil"

-----------------------------------------------------------------------------
(* Properties of the run selector and the rerun executor, checked under Spec. *)

\* The workflow whose name or path is the identity of the running workflow.
IsCurrentWorkflow(w) == w.name = githubWorkflow \/ w.path = githubWorkflow

\* Positions in the call log of the requests of kind op for the run with this id.
RequestsFor(op, id) == {k \in 1..Len(calls) : calls[k].op = op /\ calls[k].id = id}

\* Some request of the call log is about workflow wid: a run listing for it, or a
\* cancel or rerun of one of its runs.
WorkflowTouched(wid) ==
    \E k \in 1..Len(calls) :
        \/ calls[k].op = "ListWorkflowRuns" /\ calls[k].id = <<wid>>
        \/ calls[k].op \in {"Cancel", "Rerun"} /\ calls[k].id[1] = wid

\* C11: in the Action handlers, no run of the workflow whose name or path is
\* GITHUB_WORKFLOW is selected, cancelled or rerun, and no run listing is requested
\* for it, for "/rerun-all" and for a command naming it alike.
C11_SelfWorkflowSkipped ==
    variant \in ActionVariants =>
        \A w \in WorkflowCatalogue :
            IsCurrentWorkflow(w) =>
                /\ \A j \in 1..Len(runsToRerun) : runsToRerun[j].workflowID # w.id
                /\ ~WorkflowTouched(w.id)

\* "/rerun-workflow build" and "/rerun-workflow test" in a workflow whose path is
\* "test.yml": test is a target and is skipped, a run of build is rerun.
C11_Witness ==
    /\ variant = "canonical"
    /\ comment.body = B_two
    /\ githubWorkflow = legacyTestCommand \o W_yml
    /\ \E k \in 1..Len(workflows) :
          workflows[k].name = legacyTestCommand /\ workflows[k].state = "active"
    /\ Requested("Rerun")
    /\ pc = "done"

\* C12: the selected runs never hold two runs of one workflow, and no two rerun
\* requests are issued for runs of one workflow.
C12_AtMostOnePerWorkflow ==
    /\ \A i, j \in 1..Len(runsToRerun) :
          i # j => runsToRerun[i].workflowID # runsToRerun[j].workflowID
    /\ \A k, l \in 1..Len(calls) :
          (k # l /\ calls[k].op = "Rerun" /\ calls[l].op = "Rerun")
            => calls[k].id[1] # calls[l].id[1]

\* Two workflows, one run selected and rerun for each.
C12_Witness ==
    /\ Len(runsToRerun) = 2
    /\ Cardinality({k \in 1..Len(calls) : calls[k].op = "Rerun"}) = 2
    /\ pc = "done"

\* C13: a selected run that is not completed gets exactly one cancel request, issued
\* before its rerun request; a selected run completed without success gets a rerun
\* request and no cancel request.
C13_CancelBeforeRerun ==
    \A j \in 1..Len(runsToRerun) :
        LET run == runsToRerun[j]
            cancels == RequestsFor("Cancel", run.id)
            reruns == RequestsFor("Rerun", run.id)
        IN /\ run.status # "completed" =>
                /\ Cardinality(cancels) <= 1
                /\ \A k \in reruns : \E c \in cancels : c < k
                /\ j < runIdx => Cardinality(cancels) = 1 /\ Cardinality(reruns) = 1
           /\ (run.status = "completed" /\ run.conclusion # "success") =>
                /\ cancels = {}
                /\ j < runIdx => Cardinality(reruns) = 1

\* A run in progress and a failed run, both handled.
C13_Witness ==
    /\ pc = "done"
    /\ runIdx = 3
    /\ \E j \in 1..2 : runsToRerun[j].status = "in_progress"
    /\ \E j \in 1..2 :
          runsToRerun[j].status = "completed" /\ runsToRerun[j].conclusion = "failure"

\* The run is completed and successful.
IsCompletedSuccess(run) == run.status = "completed" /\ run.conclusion = "success"

\* C14: every selected run that is not completed and successful gets exactly one
\* rerun request, whether its cancel request or any earlier request of the batch
\* failed or not; no cancel or rerun request is issued twice; the batch is never cut
\* short.
C14_OneRerunDespiteFailures ==
    /\ \A j \in 1..Len(runsToRerun) :
          LET run == runsToRerun[j] IN
          /\ Cardinality(RequestsFor("Cancel", run.id)) <= 1
          /\ Cardinality(RequestsFor("Rerun", run.id)) <= 1
          /\ (j < runIdx /\ ~IsCompletedSuccess(run)) =>
                Cardinality(RequestsFor("Rerun", run.id)) = 1
    /\ (pc = "done" /\ calls # <<>> /\ calls[Len(calls)].op \in {"Cancel", "Rerun"})
          => runIdx > Len(runsToRerun)

\* The cancel and the rerun of the first run both failed; the rerun of the first run
\* and of the second run were issued all the same.
C14_Witness ==
    /\ pc = "done"
    /\ Len(runsToRerun) = 2
    /\ runIdx = 3
    /\ \E c \in RequestsFor("Cancel", runsToRerun[1].id) : calls[c].err
    /\ \E k \in RequestsFor("Rerun", runsToRerun[1].id) : calls[k].err
    /\ RequestsFor("Rerun", runsToRerun[2].id) # {}

\* The kinds of request that fetch data.
FetchOps == {"GetComment", "GetIssue", "GetPR", "ListWorkflows", "ListWorkflowRuns"}

\* C15: when the fetch of the comment, the issue, the PR, the workflow list or a run
\* list fails, the invocation is over, no cancel and no rerun request was issued,
\* and the handler returns nil.
C15_FetchFailureNoSideEffects ==
    \A k \in 1..Len(calls) :
        (calls[k].op \in FetchOps /\ calls[k].err) =>
            /\ k = Len(calls)
            /\ pc = "done"
            /\ ret = "nil"
            /\ ~Requested("Cancel")
            /\ ~Requested("Rerun")

\* The run listing of the second workflow fails after a run of the first was selected.
C15_Witness ==
    /\ runsToRerun # <<>>
    /\ calls[Len(calls)].op = "ListWorkflowRuns"
    /\ calls[Len(calls)].err
    /\ pc = "done"

\* C16: when the comment body yields no command, the handler stops right after
\* parsing: no issue fetch, no PR fetch, no workflow listing, no run listing, no
\* cancel and no rerun request.
C16_NoCommandStopsAfterParse ==
    (comment.fetched /\ parseCommentsToWorkflowNames(variant, comment.body) = {}) =>
        \A k \in 1..Len(calls) : calls[k].op = "GetComment"

\* The statement of C16 for the canonical handler alone.
NoCommandStopsCanonical == variant = "canonical" => C16_NoCommandStopsAfterParse

-----------------------------------------------------------------------------
(* Properties of the selector and the pipeline as functions, checked under *)
(* SpecSelect.                                                             *)

\* C17: on the same comment, issue, PR, workflow list and run lists, the webhook
\* handler and each Action handler recognize the same commands, reach the same
\* authorization decision and select the same runs.
C17_SamePipeline ==
    Applied("Pipeline") => \A v \in ActionVariants : out[v] = out["webhook"]

\* The elements of s, in the order of s, that satisfy Keep.
IsFilterOf(t, s, Keep(_)) ==
    \E f \in [1..Len(t) -> 1..Len(s)] :
        /\ \A k \in 1..Len(t) : t[k] = s[f[k]]
        /\ \A k, l \in 1..Len(t) : k < l => f[k] < f[l]
        /\ \A m \in 1..Len(s) : Keep(s[m]) <=> \E k \in 1..Len(t) : f[k] = m

\* C18: the target workflows are the whole listing when RerunAll is among the
\* commands, RerunWorkflow commands or not; otherwise they are, in listing order,
\* exactly the listed workflows whose name is, letter for letter, the name of a
\* RerunWorkflow command. A name no listed workflow has selects nothing.
C18_TargetWorkflowSet ==
    Applied("TargetWorkflows") =>
        IF testAll \in arg.tests THEN out = arg.listed
        ELSE IsFilterOf(out, arg.listed,
                        LAMBDA w : \E n \in arg.tests :
                            Len(n) = Len(w.name) /\ \A i \in 1..Len(n) : n[i] = w.name[i])

\* "Build", "buil" and "foo" select nothing from the listing build, lint; "lint" does.
C18_Witness ==
    /\ Applied("TargetWorkflows")
    /\ arg.tests = {InCase(W_build, "capital"), W_buil, W_foo, W_lint}
    /\ \E k \in 1..Len(arg.listed) : arg.listed[k].name = W_build
    /\ Len(arg.listed) = 2
    /\ Len(out) = 1
    /\ out[1].name = W_lint

\* The name of the workflow with this id.
WorkflowNameOf(wid) == (CHOOSE w \in WorkflowCatalogue : w.id = wid).name

\* C19: a comment whose commands are all "/rerun-workflow <name>" never has a run
\* selected of a workflow that has none of the given names, whatever the names are.
C19_OnlyNamedWorkflows ==
    (/\ Applied("Pipeline")
     /\ \A i \in 1..Len(arg.lines) : \E n \in WorkflowNames : arg.lines[i] = WorkflowLine(n))
    => \A k \in 1..Len(out["canonical"].selected) :
          \E i \in 1..Len(arg.lines) :
              arg.lines[i] = WorkflowLine(WorkflowNameOf(out["canonical"].selected[k].workflowID))

\* The run list is ordered newest-first.
NewestFirst(runs) ==
    \A k, l \in 1..Len(runs) : k < l => runs[k].createdAt >= runs[l].createdAt

\* Positions of the runs of the PR's head SHA that are not older than the PR.
Eligible(runs, p) ==
    {k \in 1..Len(runs) : runs[k].headSHA = p.head /\ runs[k].createdAt >= p.createdAt}

\* C20: for a run list ordered newest-first, the selected run is a most recently
\* created run among those with the PR's head SHA that are not older than the PR,
\* and no run is selected iff no such run is in the list.
C20_MostRecentMatchingRun ==
    (Applied("ScanRuns") /\ NewestFirst(arg.runs)) =>
        LET eligible == Eligible(arg.runs, arg.pr)
        IN /\ out = <<>> <=> eligible = {}
           /\ out # <<>> =>
                /\ Len(out) = 1
                /\ \E k \in eligible :
                      /\ out[1] = arg.runs[k]
                      /\ \A l \in eligible : arg.runs[l].createdAt <= arg.runs[k].createdAt

\* A newer run of another commit, then two runs of the PR's head: the first of the
\* two is selected.
C20_Witness ==
    /\ Applied("ScanRuns")
    /\ NewestFirst(arg.runs)
    /\ Len(arg.runs) = 3
    /\ arg.runs[1].headSHA = "sha2"
    /\ Eligible(arg.runs, arg.pr) = {2, 3}
    /\ arg.runs[2].createdAt > arg.runs[3].createdAt
    /\ out = <<arg.runs[2]>>

-----------------------------------------------------------------------------
(* Further properties of the scan (SpecSelect) and of the handlers (Spec, *)
(* SpecLive).                                                             *)

\* Position of the first run created before the PR, Len(runs) + 1 when there is none.
StopPosition(runs, p) ==
    LET older == {k \in 1..Len(runs) : runs[k].createdAt < p.createdAt}
    IN IF older = {} THEN Len(runs) + 1
       ELSE CHOOSE k \in older : \A l \in older : k <= l

\* C21: the scan stops at the first run created before the PR: the selected run, if
\* any, is the first run with the PR's head SHA among the runs before that position,
\* and no run at or after it is selected, whatever its head SHA; a run created at the
\* PR's creation time does not stop the scan.
C21_ScanStopsAtOlderRun ==
    Applied("ScanRuns") =>
        LET stop == StopPosition(arg.runs, arg.pr)
            matches == {k \in 1..(stop - 1) : arg.runs[k].headSHA = arg.pr.head}
        IN IF matches = {} THEN out = <<>>
           ELSE out = <<arg.runs[CHOOSE k \in matches : \A l \in matches : k <= l]>>

\* A run of another commit created at the PR's creation time, a run older than the
\* PR, then a newer run of the PR's head: the scan went past the first, stopped at
\* the second and selected nothing.
C21_Witness ==
    /\ Applied("ScanRuns")
    /\ Len(arg.runs) = 3
    /\ arg.runs[1].headSHA # arg.pr.head /\ arg.runs[1].createdAt = arg.pr.createdAt
    /\ arg.runs[2].createdAt < arg.pr.createdAt
    /\ arg.runs[3].headSHA = arg.pr.head /\ arg.runs[3].createdAt > arg.pr.createdAt
    /\ out = <<>>

\* C22: in every handler, no run listing is requested for a workflow whose state is
\* not "active", and no run of it is selected, cancelled or rerun.
C22_InactiveWorkflowSkipped ==
    \A w \in WorkflowCatalogue :
        w.state # "active" =>
            /\ \A j \in 1..Len(runsToRerun) : runsToRerun[j].workflowID # w.id
            /\ ~WorkflowTouched(w.id)

\* The disabled workflow lint is a target, the run of the other target is rerun.
C22_Witness ==
    /\ \E k \in 1..Len(workflows) :
          workflows[k].name = W_lint /\ workflows[k].state = "disabled_manually"
    /\ Len(workflows) = 2
    /\ Len(runsToRerun) = 1
    /\ Requested("Rerun")
    /\ pc = "done"

\* Position of the workflow with this id among the target workflows.
TargetPosition(wid) == CHOOSE k \in 1..Len(workflows) : workflows[k].id = wid

\* Positions in the call log of the cancel and rerun requests for the run.
ExecRequests(run) == RequestsFor("Cancel", run.id) \cup RequestsFor("Rerun", run.id)

\* The selected runs are in the order of the workflow listing, and the requests for
\* an earlier selected run all come before the requests for a later one.
OrderKept ==
    \A i, j \in 1..Len(runsToRerun) :
        i < j =>
          /\ TargetPosition(runsToRerun[i].workflowID)
                < TargetPosition(runsToRerun[j].workflowID)
          /\ \A k \in ExecRequests(runsToRerun[i]) :
                \A l \in ExecRequests(runsToRerun[j]) : k < l

\* The request a handler issues next, read from what it has received so far; the
\* kind "none" when its next step issues no request.
RequestDue ==
    CASE pc = "start" /\ variant \in ActionVariants -> [op |-> "GetComment", id |-> <<>>]
      [] pc = "getIssue" -> [op |-> "GetIssue", id |-> <<>>]
      [] pc = "getPR" -> [op |-> "GetPR", id |-> <<>>]
      [] pc = "listWorkflows" -> [op |-> "ListWorkflows", id |-> <<>>]
      [] pc = "select" /\ wfIdx <= Len(workflows) ->
            IF workflows[wfIdx].state = "active"
               /\ ~(variant \in ActionVariants /\ IsCurrentWorkflow(workflows[wfIdx]))
            THEN [op |-> "ListWorkflowRuns", id |-> <<workflows[wfIdx].id>>]
            ELSE [op |-> "none", id |-> <<>>]
      [] pc = "exec" /\ runIdx <= Len(runsToRerun) ->
            IF runsToRerun[runIdx].status # "completed"
            THEN [op |-> "Cancel", id |-> runsToRerun[runIdx].id]
            ELSE IF variant \in ActionVariants /\ runsToRerun[runIdx].conclusion = "success"
            THEN [op |-> "none", id |-> <<>>]
            ELSE [op |-> "Rerun", id |-> runsToRerun[runIdx].id]
      [] pc = "rerun" -> [op |-> "Rerun", id |-> runsToRerun[runIdx].id]
      [] OTHER -> [op |-> "none", id |-> <<>>]

\* A step issues the request that is due, and nothing when none is due.
IssuesRequestDue ==
    IF RequestDue.op = "none" THEN calls' = calls
    ELSE /\ Len(calls') = Len(calls) + 1
         /\ SubSeq(calls', 1, Len(calls)) = calls
         /\ calls'[Len(calls')].op = RequestDue.op
         /\ calls'[Len(calls')].id = RequestDue.id

\* C23: the selected runs are in the order of the workflow listing and are handled
\* in that order: every cancel or rerun request of an earlier selected run comes
\* before every request of a later one. What the handler has received fixes the
\* request it issues next: with the same inputs and API responses, the same
\* sequence of requests follows.
C23_ListingOrderKept == []OrderKept /\ [][IssuesRequestDue]_vars

\* Two selected runs, the first cancelled and rerun before the second is rerun.
C23_Witness ==
    /\ Len(runsToRerun) = 2
    /\ RequestsFor("Cancel", runsToRerun[1].id) # {}
    /\ RequestsFor("Rerun", runsToRerun[1].id) # {}
    /\ RequestsFor("Rerun", runsToRerun[2].id) # {}
    /\ TargetPosition(runsToRerun[1].workflowID) = 1
    /\ pc = "done"

\* C24: in the Action handler with the allow and deny lists, the gates are
\* alternatives: the handler goes past the gate iff the issue carries "ok-to-test"
\* or the commenter passes the allow and deny lists.
C24_RegexGateAlternatives ==
    (/\ variant = "regex"
     /\ GateDecided
     /\ issue.isPullRequest /\ ~issue.locked)
    => (PastGate <=>
          \/ CarriesOkToTest(issue)
          \/ canUserComment(allowUserRegexps, denyUserRegexps, comment.login))

\* The statement the code of that handler satisfies: both gates are required.
RegexGateConjunction ==
    (/\ variant = "regex"
     /\ GateDecided
     /\ issue.isPullRequest /\ ~issue.locked)
    => (PastGate <=>
          /\ CarriesOkToTest(issue)
          /\ canUserComment(allowUserRegexps, denyUserRegexps, comment.login))

\* C25: for an issue_comment event whose action is not "created", the webhook
\* handler is over at once: no client, no request, no cancel and no rerun, whatever
\* the comment body holds.
C25_OnlyCreatedEvents ==
    (variant = "webhook" /\ event \notin {"", "created"}) =>
        /\ calls = <<>>
        /\ pc = "done"
        /\ ret = "nil"
        /\ ~pr.fetched

\* An edited comment holding "/retest" is not handled.
C25_Witness ==
    /\ variant = "webhook"
    /\ event = "edited"
    /\ comment.body = B_retest
    /\ pc = "done"
    /\ calls = <<>>

\* The number of requests of kind op for this id.
CountOf(op, id) == Cardinality(RequestsFor(op, id))

\* One pass over the workflows, one listing and one scan per target workflow, one
\* pass over the selected runs.
PassesBounded ==
    /\ wfIdx <= Len(workflows) + 1
    /\ runIdx <= Len(runsToRerun) + 1
    /\ Len(runsToRerun) < wfIdx
    /\ CountOf("ListWorkflows", <<>>) <= 1
    /\ \A k \in 1..Len(workflows) : CountOf("ListWorkflowRuns", <<workflows[k].id>>) <= 1
    /\ \A j \in 1..Len(runsToRerun) :
          CountOf("Cancel", runsToRerun[j].id) <= 1 /\ CountOf("Rerun", runsToRerun[j].id) <= 1
    /\ Len(calls) <= 4 + Len(workflows) + 2 * Len(runsToRerun)

\* C27: every invocation reaches its return, after at most one pass over the
\* workflow list, one run listing and one scan per target workflow and one pass over
\* the selected runs, whatever the outcomes of the requests.
C27_Terminates == <>(pc = "done") /\ []PassesBounded

\* Two workflows listed, both run listings done, two runs handled with failing
\* requests, and the handler has returned.
C27_Witness ==
    /\ pc = "done"
    /\ Len(workflows) = 2
    /\ wfIdx = 3
    /\ Len(runsToRerun) = 2
    /\ runIdx = 3
    /\ \A k \in 1..Len(calls) : calls[k].op \in {"Cancel", "Rerun"} => calls[k].err

\* C28: every run with a cancel or rerun request has the head SHA of the fetched PR,
\* was not created before the PR and belongs to an active target workflow; when no
\* run was found, no cancel or rerun request is issued and the handler returns nil.
C28_RequestsOnlyForMatchingRuns ==
    /\ \A k \in 1..Len(calls) :
          calls[k].op \in {"Cancel", "Rerun"} =>
            /\ pr.fetched
            /\ \E j \in 1..Len(runsToRerun) :
                  /\ runsToRerun[j].id = calls[k].id
                  /\ runsToRerun[j].headSHA = pr.head
                  /\ runsToRerun[j].createdAt >= pr.createdAt
                  /\ \E m \in 1..Len(workflows) :
                        /\ workflows[m].id = runsToRerun[j].workflowID
                        /\ workflows[m].state = "active"
    /\ (pc = "done" /\ runsToRerun = <<>>) =>
          /\ ~Requested("Cancel") /\ ~Requested("Rerun")
          /\ (Requested("ListWorkflows") => ret = "nil")

\* Two active workflows scanned, no run of the PR's head found: nothing is requested.
C28_Witness ==
    /\ pc = "done"
    /\ CountOf("ListWorkflowRuns", <<1>>) = 1
    /\ CountOf("ListWorkflowRuns", <<2>>) = 1
    /\ ~calls[Len(calls)].err
    /\ runsToRerun = <<>>
    /\ ret = "nil"

-----------------------------------------------------------------------------
(* Properties of the start of the process, checked under SpecStartup. *)

\* Some source of the list has a group left open.
HasMalformedPattern(list) ==
    \E k \in 1..Len(list.items) : list.items[k] \in {S_open_dev, S_open_bot}

\* The inputs the claim of C26 names: a malformed allow or deny pattern where the
\* lists are read, an empty repo_token or an empty comment_id in an Action.
BadStartupInput ==
    \/ variant \in {"regex", "webhook"}
          /\ (HasMalformedPattern(arg.allow) \/ HasMalformedPattern(arg.deny))
    \/ variant \in ActionVariants /\ (arg.token = "" \/ arg.commentID = <<>>)

StartupPcs == {"main", "commentID", "repo"}

\* C26: with a malformed allow or deny pattern, an empty repo_token or an empty
\* comment_id the process is aborted at its start, before any request; the patterns
\* the handler uses are the ones compiled at the start, and handling a comment
\* never ends in a fatal error.
C26_StartupAborts ==
    /\ BadStartupInput =>
          /\ calls = <<>>
          /\ pc \in StartupPcs \cup {"exited"}
          /\ pc = "exited" => ret = "fatal"
    /\ pc \notin StartupPcs \cup {"exited"} =>
          /\ ret # "fatal"
          /\ Len(allowUserRegexps) = Len(arg.allow.items)
          /\ Len(denyUserRegexps) = Len(arg.deny.items)
          /\ \A k \in 1..Len(allowUserRegexps) : allowUserRegexps[k].lit = arg.allow.items[k]
          /\ \A k \in 1..Len(denyUserRegexps) : denyUserRegexps[k].lit = arg.deny.items[k]

\* The regex Action with a token, a comment id, and the deny pattern "(bot": the
\* process is over before any request.
C26_Witness ==
    /\ variant = "regex"
    /\ arg.token = "t"
    /\ arg.commentID = <<"4", "2">>
    /\ arg.allow = ListStr(<<U_dev>>)
    /\ arg.deny = ListStr(<<S_open_bot>>)
    /\ pc = "exited"
    /\ ret = "fatal"
    /\ calls = <<>>

=============================================================================
